---- MODULE Spec2Model ----
(***************************************************************************)
(* Model of the chronos scheduling package: the Job dispatcher (Schedule,  *)
(* Done, run) with its two signalling channels and its mutex, and the      *)
(* schedule constructors (newPeriodic, newMonthly, newYearly), and the     *)
(* schedulers themselves: getCandidate and next() of the periodic, monthly *)
(* and yearly cadences, run against a clock that moves while they run.     *)
(*                                                                         *)
(* Threads of control: the callers that hold the Job handle, one listener  *)
(* goroutine per successful Done() call (the anonymous func of Done) and   *)
(* one runner goroutine per `go j.run()`.                                  *)
(***************************************************************************)
EXTENDS Integers, Sequences, FiniteSets, TLC

\* ---------------------------------------------------------------- bounds
MaxDone == 2      \* successful Done() calls explored (one goroutine pair each)
MaxTimes == 2     \* largest execution limit passed to NTimes
MaxCallers == 1   \* threads of control that hold the Job handle
MaxNow == 5       \* last clock reading, in ticks, given to a periodic scheduler
MaxCalls == 4     \* next() calls explored on one scheduler
IntBits == 7      \* width given to Go's int and time.Duration (64 in Go)

\* ------------------------------------------------------ program constants
periodicKind == 0
monthlyKind == 1
yearlyKind == 2
Unlimited == -1   \* Job.times: -1 means no limit
ChanCap == 1      \* make(chan struct{}, 1)
ZeroTime == 0     \* the zero time.Time, before every clock reading

Kinds == {periodicKind, monthlyKind, yearlyKind}
Ammounts == {0, 1}              \* arguments of Every(); 0 when never called
Units == {0, 1}                 \* aux.unit in clock ticks; 0 when never set
\* Month() and Year() set no unit: the unit stays 0 unless a duration builder
\* was called before them, which the constructors of those kinds never read.
Configs ==
    {a \in [kind : Kinds, ammount : Ammounts, unit : Units,
            notInmediately : BOOLEAN, start : {ZeroTime}, end : {ZeroTime}] :
        a.kind = periodicKind \/ a.unit = 0}
TimesSet == {Unlimited} \cup (0..MaxTimes)
Callers == 1..MaxCallers
Slots == 1..MaxDone             \* goroutine pair created by the i-th Done()

VARIABLES
    aux,        \* Job.aux: the configuration assembled by the builder calls
    times,      \* Job.times
    n,          \* Job.n: executions begun so far
    heap,       \* the schedulers allocated by the constructors, in order
    schedule,   \* Job.schedule: index into heap, 0 is nil
    quit,       \* Job.quit: buffered channel, as the sequence of its tokens
    skip,       \* Job.skip: buffered channel; a token records whether it
                \* entered the channel while the task was executing
    mutex,      \* Job.mutex: 0 when unlocked, else the slot of the holder
    listener,   \* position of each listener goroutine
    runner,     \* position of each runner goroutine
    cause,      \* what made the listener start each runner
    pc,         \* position of each caller
    err,        \* the error returned by the last Done() call
    now,        \* the wall clock; the dispatcher reads it in the constructors only
    cancelled,  \* a send on quit has returned to its caller
    crashed,    \* the process was terminated by an unrecovered panic
    npc,        \* position inside a call of scheduler.next()
    cand,       \* the local `next` of scheduler.next(): the candidate
    call,       \* what the running next() call found when it was entered
    ret,        \* what the last next() call returned
    hist        \* the next() calls completed so far

\* the state of a call of scheduler.next(), which the dispatcher never makes
cadVars == <<npc, cand, call, ret, hist>>

vars == <<aux, times, n, heap, schedule, quit, skip, mutex, listener, runner,
          cause, pc, err, now, cancelled, crashed, npc, cand, call, ret, hist>>

\* ------------------------------------------------------------- arithmetic
\* Go's signed integer arithmetic wraps around silently.
Wrap(x) == ((x + 2^(IntBits - 1)) % 2^IntBits) - 2^(IntBits - 1)

\* ---------------------------------------------------------------- calendar
\* Instants of the calendar schedulers are days, counted from 2023-01-01 = 1
\* (a fixed time of day).  Date, AddDate and Day are those of package time:
\* Date normalises a month beyond December and a day beyond the end of its
\* month by carrying into the following year or month.
IsLeap(y) == (y % 4 = 0 /\ y % 100 # 0) \/ y % 400 = 0

DaysIn(y, m) ==
    IF m = 2 THEN (IF IsLeap(y) THEN 29 ELSE 28)
    ELSE IF m \in {4, 6, 9, 11} THEN 30 ELSE 31

RECURSIVE DaysBeforeMonth(_, _)
DaysBeforeMonth(y, m) ==
    IF m <= 1 THEN 0 ELSE DaysBeforeMonth(y, m - 1) + DaysIn(y, m - 1)

RECURSIVE DaysBeforeYear(_)
DaysBeforeYear(y) ==
    IF y <= 2023 THEN 0
    ELSE DaysBeforeYear(y - 1) + (IF IsLeap(y - 1) THEN 366 ELSE 365)

Date(y, m, d) ==
    LET yy == y + ((m - 1) \div 12)
        mm == ((m - 1) % 12) + 1
    IN  DaysBeforeYear(yy) + DaysBeforeMonth(yy, mm) + d

RECURSIVE YearFrom(_, _)
YearFrom(y, t) ==
    LET len == IF IsLeap(y) THEN 366 ELSE 365 IN
    IF t <= len THEN <<y, t>> ELSE YearFrom(y + 1, t - len)

RECURSIVE MonthFrom(_, _, _)
MonthFrom(y, m, t) ==
    IF t <= DaysIn(y, m) \/ m = 12 THEN [y |-> y, m |-> m, d |-> t]
    ELSE MonthFrom(y, m + 1, t - DaysIn(y, m))

\* the year, month and day of an instant
Civil(t) == LET yt == YearFrom(2023, t) IN MonthFrom(yt[1], 1, yt[2])

AddDate(t, years, months, days) ==
    LET c == Civil(t) IN Date(c.y + years, c.m + months, c.d + days)

Day(t) == Civil(t).d

\* ------------------------------------------------------------ constructors
Scheduler_unprimed(kind, start, end, ammount, notInmediately, clock) ==
    [kind |-> kind,
     start |-> IF start = ZeroTime THEN clock ELSE start,
     end |-> end,
     started |-> FALSE,
     ammount |-> ammount,
     n |-> IF notInmediately THEN 1 ELSE 0]

Scheduler(kind, start, end, ammount, notInmediately, clock) ==
    [kind |-> kind,
     start |-> IF start = ZeroTime THEN clock ELSE start,
     end |-> end,
     started |-> notInmediately,
     ammount |-> ammount,
     n |-> IF notInmediately THEN 1 ELSE 0]

newPeriodic_anyzero(start, end, ammount, unit, notInmediately, clock) ==
    IF ammount = 0 /\ unit = 0
    THEN [err |-> TRUE]
    ELSE [err |-> FALSE,
          sched |-> Scheduler(periodicKind, start, end, Wrap(ammount * unit),
                              notInmediately, clock)]

newPeriodic(start, end, ammount, unit, notInmediately, clock) ==
    IF ammount = 0 \/ unit = 0
    THEN [err |-> TRUE]
    ELSE [err |-> FALSE,
          sched |-> Scheduler(periodicKind, start, end, Wrap(ammount * unit),
                              notInmediately, clock)]

newMonthly(start, end, ammount, notInmediately, clock) ==
    IF ammount = 0
    THEN [err |-> TRUE]
    ELSE [err |-> FALSE,
          sched |-> Scheduler(monthlyKind, start, end, ammount,
                              notInmediately, clock)]

newYearly(start, end, ammount, notInmediately, clock) ==
    IF ammount = 0
    THEN [err |-> TRUE]
    ELSE [err |-> FALSE,
          sched |-> Scheduler(yearlyKind, start, end, ammount,
                              notInmediately, clock)]

\* the switch of Job.Done
construct(a, clock) ==
    IF a.kind = periodicKind
    THEN newPeriodic(a.start, a.end, a.ammount, a.unit, a.notInmediately, clock)
    ELSE IF a.kind = monthlyKind
    THEN newMonthly(a.start, a.end, a.ammount, a.notInmediately, clock)
    ELSE newYearly(a.start, a.end, a.ammount, a.notInmediately, clock)

\* -------------------------------------------------------------- candidates
\* periodic.getCandidate
periodicCandidate(s) == s.start + Wrap(s.n * s.ammount)

\* monthly.getCandidate without the day correction: AddDate's own
\* normalisation rolls a missing day into the following month
monthlyCandidate_noclamp(s) ==
    AddDate(s.start, 0, Wrap(s.n * s.ammount), 0)

\* monthly.getCandidate
monthlyCandidate(s) ==
    LET res == AddDate(s.start, 0, Wrap(s.n * s.ammount), 0) IN
    IF Day(res) # Day(s.start) THEN AddDate(res, 0, 0, -Day(res)) ELSE res

\* yearly.getCandidate
yearlyCandidate(s) ==
    LET res == AddDate(s.start, Wrap(s.n * s.ammount), 0, 0) IN
    IF Day(res) # Day(s.start) THEN AddDate(res, 0, 0, -Day(res)) ELSE res

\* s.getCandidate() through the scheduler interface
getCandidate(s) ==
    IF s.kind = periodicKind THEN periodicCandidate(s)
    ELSE IF s.kind = monthlyKind THEN monthlyCandidate(s)
    ELSE yearlyCandidate(s)

\* the candidate the scheduler has for index k
CandidateAt(s, k) == getCandidate([s EXCEPT !.n = k])

\* the end test written with !next.After(s.end)
HasMore_inclusive(s, c) == s.end = ZeroTime \/ c <= s.end

\* s.end.IsZero() || next.Before(s.end)
HasMore(s, c) == s.end = ZeroTime \/ c < s.end

\* ------------------------------------------------------------------- state
\* no next() call is running, none has returned
NoCall ==
    [primed |-> FALSE, n0 |-> 0, still |-> TRUE, minimal |-> TRUE,
     past |-> FALSE]
NoRet == [hasMore |-> FALSE, wait |-> 0, cand |-> ZeroTime, idx |-> 0,
          primed |-> FALSE, n0 |-> 0, still |-> TRUE, minimal |-> TRUE,
          past |-> FALSE]
NoHist ==
    [calls |-> 0, lockstep |-> TRUE, onstep |-> TRUE, prevIdx |-> 0,
     back |-> FALSE]

Executing == \E i \in Slots : runner[i] = "task"

\* Schedule(f) followed by the builder calls (NTimes, Every, the units,
\* Month, Year, NotInmediately); Done() has not been called yet.
Init ==
    /\ aux \in Configs
    /\ times \in TimesSet
    /\ n = 0
    /\ heap = <<>>
    /\ schedule = 0
    /\ quit = <<>>
    /\ skip = <<>>
    /\ mutex = 0
    /\ listener = [i \in Slots |-> "none"]
    /\ runner = [i \in Slots |-> "none"]
    /\ cause = [i \in Slots |-> "none"]
    /\ pc = [c \in Callers |-> "idle"]
    /\ err = "unset"
    /\ now = 1
    /\ cancelled = FALSE
    /\ crashed = FALSE
    /\ npc = "idle"
    /\ cand = ZeroTime
    /\ call = NoCall
    /\ ret = NoRet
    /\ hist = NoHist

\* ----------------------------------------------------------------- callers
\* Job.Done: build the scheduler; on success store it and start a listener.
\* The call returns err and the two channels whether or not it succeeded.
Done(c) ==
    /\ ~crashed
    /\ UNCHANGED cadVars
    /\ pc[c] = "idle"
    /\ LET res == construct(aux, now) IN
       IF res.err
       THEN /\ err' = "error"
            /\ UNCHANGED <<heap, schedule, listener>>
       ELSE /\ Len(heap) < MaxDone
            /\ err' = "nil"
            /\ heap' = Append(heap, res.sched)
            /\ schedule' = Len(heap) + 1
            /\ listener' = [listener EXCEPT ![Len(heap) + 1] = "select"]
    /\ UNCHANGED <<aux, times, n, quit, skip, mutex, runner, cause, pc, now,
                   cancelled, crashed>>

\* triggerNow(): a send on the skip channel, which the caller holds once a
\* Done() call has returned it.
TriggerNow(c) ==
    /\ ~crashed
    /\ UNCHANGED cadVars
    /\ pc[c] = "idle"
    /\ err # "unset"
    /\ IF Len(skip) < ChanCap
       THEN skip' = Append(skip, Executing) /\ pc' = pc
       ELSE skip' = skip /\ pc' = [pc EXCEPT ![c] = "skip"]
    /\ UNCHANGED <<aux, times, n, heap, schedule, quit, mutex, listener,
                   runner, cause, err, now, cancelled, crashed>>

\* cancel(): a send on the quit channel, which the caller holds once a
\* Done() call has returned it.
Cancel(c) ==
    /\ ~crashed
    /\ UNCHANGED cadVars
    /\ pc[c] = "idle"
    /\ err # "unset"
    /\ IF Len(quit) < ChanCap
       THEN quit' = Append(quit, "quit") /\ pc' = pc /\ cancelled' = TRUE
       ELSE quit' = quit /\ pc' = [pc EXCEPT ![c] = "quit"]
                /\ cancelled' = cancelled
    /\ UNCHANGED <<aux, times, n, heap, schedule, skip, mutex, listener,
                   runner, cause, err, now, crashed>>

\* --------------------------------------------------------------- listener
Blocked(ch) == {c \in Callers : pc[c] = ch}

\* case <-j.quit: return
ListenQuit(i) ==
    /\ ~crashed
    /\ UNCHANGED cadVars
    /\ listener[i] = "select"
    /\ quit # <<>>
    /\ listener' = [listener EXCEPT ![i] = "exit"]
    /\ IF Blocked("quit") = {}
       THEN quit' = Tail(quit) /\ pc' = pc /\ cancelled' = cancelled
       ELSE \E c \in Blocked("quit") :
                /\ quit' = Append(Tail(quit), "quit")
                /\ pc' = [pc EXCEPT ![c] = "idle"]
                /\ cancelled' = TRUE
    /\ UNCHANGED <<aux, times, n, heap, schedule, skip, mutex, runner, cause,
                   err, now, crashed>>

\* case <-j.skip: go j.run()
ListenSkip(i) ==
    /\ ~crashed
    /\ UNCHANGED cadVars
    /\ listener[i] = "select"
    /\ skip # <<>>
    /\ listener' = [listener EXCEPT ![i] = "exit"]
    /\ runner' = [runner EXCEPT ![i] = "lock"]
    /\ cause' = [cause EXCEPT ![i] = IF Head(skip) THEN "skipExecuting"
                                                   ELSE "skip"]
    /\ IF Blocked("skip") = {}
       THEN skip' = Tail(skip) /\ pc' = pc
       ELSE \E c \in Blocked("skip") :
                /\ skip' = Append(Tail(skip), Executing)
                /\ pc' = [pc EXCEPT ![c] = "idle"]
    /\ UNCHANGED <<aux, times, n, heap, schedule, quit, mutex, err, now,
                   cancelled, crashed>>

\* case <-timer.C: go j.run().  Done declares and arms no timer, so nothing
\* in the code says when its channel delivers: it may at any time.
ListenTimer(i) ==
    /\ ~crashed
    /\ UNCHANGED cadVars
    /\ listener[i] = "select"
    /\ listener' = [listener EXCEPT ![i] = "exit"]
    /\ runner' = [runner EXCEPT ![i] = "lock"]
    /\ cause' = [cause EXCEPT ![i] = "timer"]
    /\ UNCHANGED <<aux, times, n, heap, schedule, quit, skip, mutex, pc, err,
                   now, cancelled, crashed>>

\* ------------------------------------------------------------------ runner
\* j.mutex.Lock()
RunLock_nomutex(i) ==
    /\ ~crashed
    /\ UNCHANGED cadVars
    /\ runner[i] = "lock"
    /\ mutex' = i
    /\ runner' = [runner EXCEPT ![i] = "locked"]
    /\ UNCHANGED <<aux, times, n, heap, schedule, quit, skip, listener, cause,
                   pc, err, now, cancelled, crashed>>

RunLock(i) ==
    /\ ~crashed
    /\ UNCHANGED cadVars
    /\ runner[i] = "lock"
    /\ mutex = 0
    /\ mutex' = i
    /\ runner' = [runner EXCEPT ![i] = "locked"]
    /\ UNCHANGED <<aux, times, n, heap, schedule, quit, skip, listener, cause,
                   pc, err, now, cancelled, crashed>>

\* j.times == -1 || j.n < j.times
CanRun_inclusive(t, k) == t = Unlimited \/ k <= t

CanRun(t, k) == t = Unlimited \/ k < t

\* run() counting the execution in the scheduler as well
RunCheck_advance(i) ==
    /\ ~crashed
    /\ UNCHANGED cadVars
    /\ runner[i] = "locked"
    /\ IF CanRun(times, n)
       THEN /\ n' = n + 1
            /\ runner' = [runner EXCEPT ![i] = "task"]
            /\ heap' = [heap EXCEPT ![schedule].n = @ + 1]
       ELSE /\ n' = n
            /\ runner' = [runner EXCEPT ![i] = "refused"]
            /\ heap' = heap
    /\ UNCHANGED <<aux, times, schedule, quit, skip, mutex, listener,
                   cause, pc, err, now, cancelled, crashed>>

\* if ... { j.n++; j.task() }: the task is entered, or skipped
RunCheck(i) ==
    /\ ~crashed
    /\ UNCHANGED cadVars
    /\ runner[i] = "locked"
    /\ IF CanRun(times, n)
       THEN n' = n + 1 /\ runner' = [runner EXCEPT ![i] = "task"]
       ELSE n' = n /\ runner' = [runner EXCEPT ![i] = "refused"]
    /\ UNCHANGED <<aux, times, heap, schedule, quit, skip, mutex, listener,
                   cause, pc, err, now, cancelled, crashed>>

\* j.task() returns
TaskReturn(i) ==
    /\ ~crashed
    /\ UNCHANGED cadVars
    /\ runner[i] = "task"
    /\ runner' = [runner EXCEPT ![i] = "returned"]
    /\ UNCHANGED <<aux, times, n, heap, schedule, quit, skip, mutex, listener,
                   cause, pc, err, now, cancelled, crashed>>

\* j.task() panics: the deferred Unlock runs, nothing recovers, and the Go
\* runtime terminates the process with every goroutine in it.
TaskPanic(i) ==
    /\ ~crashed
    /\ UNCHANGED cadVars
    /\ runner[i] = "task"
    /\ runner' = [runner EXCEPT ![i] = "panicked"]
    /\ mutex' = 0
    /\ crashed' = TRUE
    /\ UNCHANGED <<aux, times, n, heap, schedule, quit, skip, listener, cause,
                   pc, err, now, cancelled>>

\* defer j.mutex.Unlock()
RunUnlock(i) ==
    /\ ~crashed
    /\ UNCHANGED cadVars
    /\ runner[i] \in {"returned", "refused"}
    /\ mutex' = 0
    /\ runner' = [runner EXCEPT ![i] = "done"]
    /\ UNCHANGED <<aux, times, n, heap, schedule, quit, skip, listener, cause,
                   pc, err, now, cancelled, crashed>>

\* ----------------------------------------------------------- specification
\* the anonymous goroutine of Done: one select, then it returns
Listen(i) == ListenQuit(i) \/ ListenSkip(i) \/ ListenTimer(i)

\* Job.run without a panic
Run(i) == RunLock(i) \/ RunCheck(i) \/ TaskReturn(i) \/ RunUnlock(i)

Next ==
    \/ \E c \in Callers : Done(c)
    \/ \E c \in Callers : TriggerNow(c)
    \/ \E c \in Callers : Cancel(c)
    \/ \E i \in Slots : ListenQuit(i)
    \/ \E i \in Slots : ListenSkip(i)
    \/ \E i \in Slots : ListenTimer(i)
    \/ \E i \in Slots : RunLock(i)
    \/ \E i \in Slots : RunCheck(i)
    \/ \E i \in Slots : TaskReturn(i)
    \/ \E i \in Slots : TaskPanic(i)
    \/ \E i \in Slots : RunUnlock(i)

Spec == Init /\ [][Next]_vars

\* The Go scheduler runs every goroutine that can take a step and an armed
\* timer fires; callers are free to stop calling and a task need not panic.
FairSpec ==
    Spec /\ \A i \in Slots : WF_vars(Listen(i)) /\ WF_vars(Run(i))

\* ----------------------------------------------------------------- cadence
\* The scheduler alone: a constructor has returned it and next() is called
\* on it again and again, as the wait/fire loop of a dispatcher would, while
\* the clock moves.
dispVars == <<aux, times, n, schedule, quit, skip, mutex, listener, runner,
              cause, pc, err, cancelled, crashed>>

Anchors == {Date(2023, 1, 31), Date(2024, 1, 30), Date(2024, 2, 29)}

CalInstants ==
    Anchors \cup {Date(2023, 3, 1), Date(2023, 3, 31), Date(2024, 3, 1),
                  Date(2025, 3, 1)}

Instants(kind) == IF kind = periodicKind THEN 1..MaxNow ELSE CalInstants

PeriodicConfigs ==
    [kind : {periodicKind}, ammount : {1, 2}, unit : {1},
     notInmediately : BOOLEAN, start : {ZeroTime, 2}, end : {ZeroTime, 4, 5}]

CalendarConfigs ==
    [kind : {monthlyKind, yearlyKind}, ammount : {1, 2}, unit : {0},
     notInmediately : BOOLEAN, start : Anchors, end : {ZeroTime}]

\* accepted by newPeriodic: a negative amount, and amounts and units whose
\* product wraps around
WrapConfigs ==
    [kind : {periodicKind}, ammount : {-1, 2^(IntBits - 3)}, unit : {1, 8},
     notInmediately : BOOLEAN, start : {ZeroTime, 2}, end : {ZeroTime}]

InitWith(configs) ==
    /\ aux \in configs
    /\ now \in Instants(aux.kind)
    /\ heap = <<construct(aux, now).sched>>
    /\ schedule = 1
    /\ times = Unlimited
    /\ n = 0
    /\ quit = <<>>
    /\ skip = <<>>
    /\ mutex = 0
    /\ listener = [i \in Slots |-> "none"]
    /\ runner = [i \in Slots |-> "none"]
    /\ cause = [i \in Slots |-> "none"]
    /\ pc = [c \in Callers |-> "idle"]
    /\ err = "nil"
    /\ cancelled = FALSE
    /\ crashed = FALSE
    /\ npc = "idle"
    /\ cand = ZeroTime
    /\ call = NoCall
    /\ ret = NoRet
    /\ hist = NoHist

\* the index of the first occurrence a cadence reports: 1 with skipFirst
FirstIdx == IF aux.notInmediately THEN 1 ELSE 0

\* next() searching from the first occurrence again at every call
NextBegin_rewind ==
    /\ npc = "idle"
    /\ hist.calls < MaxCalls
    /\ LET s == heap[schedule] IN
       /\ heap' = [heap EXCEPT ![schedule].n = IF s.started THEN FirstIdx ELSE @]
       /\ cand' = getCandidate(heap'[schedule])
       /\ call' = [primed |-> s.started, n0 |-> s.n, still |-> TRUE,
                   minimal |-> TRUE, past |-> getCandidate(s) < now]
       /\ hist' = [hist EXCEPT
                       !.lockstep = @ /\ now = s.start + hist.calls * s.ammount,
                       !.onstep = @ /\ now = CandidateAt(s, FirstIdx + hist.calls)]
    /\ npc' = "loop"
    /\ UNCHANGED <<dispVars, now, ret>>

\* next := s.getCandidate()
NextBegin ==
    /\ npc = "idle"
    /\ hist.calls < MaxCalls
    /\ LET s == heap[schedule] IN
       /\ cand' = getCandidate(s)
       /\ call' = [primed |-> s.started, n0 |-> s.n, still |-> TRUE,
                   minimal |-> TRUE, past |-> getCandidate(s) < now]
       /\ hist' = [hist EXCEPT
                       !.lockstep = @ /\ now = s.start + hist.calls * s.ammount,
                       !.onstep = @ /\ now = CandidateAt(s, FirstIdx + hist.calls)]
    /\ npc' = "loop"
    /\ UNCHANGED <<dispVars, heap, now, ret>>

\* the loop written with !next.After(time.Now()): a candidate equal to now is
\* skipped as well
NextLoop_inclusive ==
    /\ npc = "loop"
    /\ LET s == heap[schedule] IN
       IF cand <= now /\ s.started
       THEN /\ heap' = [heap EXCEPT ![schedule].n = Wrap(@ + 1)]
            /\ cand' = getCandidate(heap'[schedule])
            /\ UNCHANGED <<npc, call>>
       ELSE /\ npc' = "return"
            /\ call' = [call EXCEPT !.minimal =
                            \A k \in call.n0..(s.n - 1) :
                                CandidateAt(s, k) < now]
            /\ UNCHANGED <<heap, cand>>
    /\ UNCHANGED <<dispVars, now, ret, hist>>

\* the loop without its break: an unprimed cadence catches up as well
NextLoop_nobreak ==
    /\ npc = "loop"
    /\ LET s == heap[schedule] IN
       IF cand < now
       THEN /\ heap' = [heap EXCEPT ![schedule].n = Wrap(@ + 1)]
            /\ cand' = getCandidate(heap'[schedule])
            /\ UNCHANGED <<npc, call>>
       ELSE /\ npc' = "return"
            /\ call' = [call EXCEPT !.minimal =
                            \A k \in call.n0..(s.n - 1) :
                                CandidateAt(s, k) < now]
            /\ UNCHANGED <<heap, cand>>
    /\ UNCHANGED <<dispVars, now, ret, hist>>

\* for next.Before(time.Now()) { if !s.started { break }; s.n++; next = ... }
\* one reading of the clock and one iteration
NextLoop ==
    /\ npc = "loop"
    /\ LET s == heap[schedule] IN
       IF cand < now /\ s.started
       THEN /\ heap' = [heap EXCEPT ![schedule].n = Wrap(@ + 1)]
            /\ cand' = getCandidate(heap'[schedule])
            /\ UNCHANGED <<npc, call>>
       ELSE /\ npc' = "return"
            /\ call' = [call EXCEPT !.minimal =
                            \A k \in call.n0..(s.n - 1) :
                                CandidateAt(s, k) < now]
            /\ UNCHANGED <<heap, cand>>
    /\ UNCHANGED <<dispVars, now, ret, hist>>

\* s.started = true; return s.end.IsZero() || next.Before(s.end),
\* next.Sub(time.Now()): a second reading of the clock
NextReturn ==
    /\ npc = "return"
    /\ LET s == heap[schedule] IN
       /\ heap' = [heap EXCEPT ![schedule].started = TRUE]
       /\ ret' = [hasMore |-> HasMore(s, cand), wait |-> cand - now,
                  cand |-> cand, idx |-> s.n, primed |-> call.primed,
                  n0 |-> call.n0, still |-> call.still,
                  minimal |-> call.minimal, past |-> call.past]
    /\ hist' = [calls |-> hist.calls + 1,
                lockstep |-> hist.lockstep /\ call.still,
                onstep |-> hist.onstep /\ call.still,
                prevIdx |-> ret.idx, back |-> hist.back]
    /\ npc' = "idle"
    /\ UNCHANGED <<dispVars, now, cand, call>>

\* time passes, also while next() runs
ClockAdvance ==
    /\ \E t \in Instants(aux.kind) : t > now /\ now' = t
    /\ call' = IF npc = "idle" THEN call ELSE [call EXCEPT !.still = FALSE]
    /\ UNCHANGED <<dispVars, heap, npc, cand, ret, hist>>

\* the wall clock is set back between two calls
ClockBack ==
    /\ npc = "idle"
    /\ \E t \in Instants(aux.kind) : t < now /\ now' = t
    /\ hist' = [hist EXCEPT !.back = TRUE]
    /\ UNCHANGED <<dispVars, heap, npc, cand, call, ret>>

CadenceNext ==
    \/ NextBegin
    \/ NextLoop
    \/ NextReturn
    \/ ClockAdvance
    \/ ClockBack

CadenceSpec ==
    InitWith(PeriodicConfigs \cup CalendarConfigs) /\ [][CadenceNext]_vars

\* a running next() call takes its next step
WrapSpec ==
    /\ InitWith(PeriodicConfigs \cup WrapConfigs)
    /\ [][CadenceNext]_vars
    /\ WF_vars(NextLoop)
    /\ WF_vars(NextReturn)

\* ------------------------------------------------------------------ claims
\* The dispatcher was started and nothing of it is left: no listener waits
\* in its select and every runner has finished.
Stopped ==
    /\ ~crashed
    /\ Len(heap) > 0
    /\ \A i \in Slots : listener[i] # "select" /\ runner[i] \in {"none", "done"}

\* C1: in every reachable state at most one invocation of the task is in
\* progress, whatever the interleaving of timer fires and triggerNow()
\* requests: an execution begins only after the previous one has completed.
C1_SingleFlight == Cardinality({i \in Slots : runner[i] = "task"}) <= 1

\* C1 witness: an execution is in progress while a second runner, started by
\* a later event, waits for the mutex.
C1_Witness ==
    \E i, j \in Slots : runner[i] = "task" /\ runner[j] = "lock"

\* C2: once cancel() has returned to its caller no new execution of the task
\* begins; only an execution already in progress may still finish.
C2_NoStartAfterCancel ==
    [][cancelled =>
          \A i \in Slots : runner'[i] = "task" => runner[i] = "task"]_vars

\* C3: with maxRuns = N >= 1, no end instant and no cancel(), the task is
\* invoked exactly N times: when the started dispatcher has nothing left to
\* do, the invocation count is N.
C3_ExactlyN ==
    (times >= 1 /\ Stopped /\ ~cancelled) => n = times

\* C4: when maxRuns is bounded, runsCompleted <= maxRuns in every reachable
\* state.
C4_Bounded == times # Unlimited => n <= times

\* C4 witness: the limit is reached and a further runner was refused the task.
C4_Witness ==
    /\ times >= 1
    /\ n = times
    /\ \E i \in Slots : runner[i] = "refused"

\* C5: every cancel() call returns, however many were made before it and
\* whether or not the background activity is still running (stated for a
\* dispatcher that Done() has started once).
C5_CancelReturns ==
    \A c \in Callers :
        []((pc[c] = "quit" /\ Len(heap) = 1)
              => <>(pc[c] # "quit" \/ crashed \/ Len(heap) # 1))

\* C6: once the dispatcher is Stopped, a triggerNow() or cancel() call is a
\* no-op: it returns, starts no execution and leaves runsCompleted and the
\* Cadence unchanged.
C6_NoOpWhenStopped ==
    [][\A c \in Callers :
          (Stopped /\ (TriggerNow(c) \/ Cancel(c))) =>
              /\ pc'[c] = "idle"
              /\ n' = n
              /\ runner' = runner
              /\ heap' = heap
              /\ schedule' = schedule]_vars

\* C7: a triggerNow() received while an execution is in progress collapses
\* with it: no execution of the task is ever started by that request.
C7_Collapse ==
    \A i \in Slots : ~(cause[i] = "skipExecuting" /\ runner[i] = "task")

\* C8: Done() on a Job that is already started (or cancelled) creates no
\* further background activity and does not replace the Cadence.
C8_Idempotent ==
    [][\A c \in Callers :
          (Done(c) /\ Len(heap) > 0) =>
              /\ listener' = listener
              /\ heap' = heap
              /\ schedule' = schedule]_vars

\* A cadence with a zero step amount, or a periodic cadence with a zero unit.
ZeroStep == aux.ammount = 0 \/ (aux.kind = periodicKind /\ aux.unit = 0)

\* C9: a cadence with a zero step amount or a zero unit is rejected by its
\* constructor: Done() never returns a nil error for it, stores no scheduler,
\* starts no goroutine, and the task is never invoked.
C9_Rejected ==
    ZeroStep =>
        /\ err # "nil"
        /\ heap = <<>>
        /\ schedule = 0
        /\ n = 0
        /\ \A i \in Slots : listener[i] = "none" /\ runner[i] = "none"

\* C9 witness: Done() has returned the error and a triggerNow() was sent
\* afterwards.
C9_Witness == ZeroStep /\ err = "error" /\ skip # <<>>

\* C10: a panic of the task is contained at the call site: the mutex is
\* released, the process and its listeners live on.
C10_Contained ==
    [][\A i \in Slots :
          (runner[i] = "task" /\ runner'[i] = "panicked") =>
              /\ mutex' = 0
              /\ ~crashed'
              /\ listener' = listener]_vars

\* A next() call has returned and none is running.
Returned == npc = "idle" /\ hist.calls > 0

\* The clock reading of the last call, when the clock stood still during it.
CallNow == ret.cand - ret.wait

\* The last call was the first one on a cadence built with skipFirst, made
\* with the clock standing k whole steps past the anchor.
FirstCallPast(k) ==
    /\ Returned
    /\ hist.calls = 1
    /\ aux.notInmediately
    /\ ret.still
    /\ CallNow = CandidateAt(heap[schedule], k)

InLockstep == aux.kind = periodicKind /\ Returned /\ hist.lockstep

\* C12 (as claimed): for a periodic cadence called with the clock advanced by
\* exactly one step between consecutive calls, first call at the anchor, each
\* call reports wait 0 and an index one greater than the previous call's.
C12_Lockstep ==
    InLockstep =>
        /\ ret.wait = 0
        /\ hist.calls >= 2 => ret.idx = hist.prevIdx + 1

\* C12 (amended): the same, for a periodic cadence with a positive step
\* built without skipFirst.
C12_LockstepFromAnchor ==
    InLockstep /\ ~aux.notInmediately /\ heap[schedule].ammount > 0 =>
        /\ ret.wait = 0
        /\ hist.calls >= 2 => ret.idx = hist.prevIdx + 1

\* C12 witness: the third lockstep call of a cadence built without skipFirst
\* has returned.
C12_Witness ==
    /\ InLockstep
    /\ ~aux.notInmediately
    /\ hist.calls = 3
    /\ ret.idx = 2

\* The instant t shifted by a number of calendar months, the day of the month
\* kept when the target month has it and replaced by the target month's last
\* day when it has not.
Clamped(t, months) ==
    LET c == Civil(t)
        total == c.y * 12 + (c.m - 1) + months
        y == total \div 12
        m == (total % 12) + 1
        d == IF c.d <= DaysIn(y, m) THEN c.d ELSE DaysIn(y, m)
    IN DaysBeforeYear(y) + DaysBeforeMonth(y, m) + d

\* C13: for a monthly cadence the candidate of every index k is the anchor
\* shifted by k*amount calendar months with the day clamped to the last day
\* of the target month, computed from the anchor: anchored on January 31 with
\* step 1, index 1 is February 28 (29 in a leap year, here from January 30)
\* and index 2 is March 31.  Stated of the candidate a running next() holds,
\* of the candidate a call returned and, on a cadence not called yet (its
\* anchor and step never change), of every index.
C13_Clamped ==
    aux.kind = monthlyKind =>
        LET s == heap[schedule] IN
        /\ npc # "idle" => cand = Clamped(s.start, s.n * s.ammount)
        /\ Returned => ret.cand = Clamped(s.start, ret.idx * s.ammount)
        /\ hist.calls = 0 /\ npc = "idle" =>
               /\ \A k \in 0..MaxCalls :
                      CandidateAt(s, k) = Clamped(s.start, k * s.ammount)
               /\ s.start = Date(2023, 1, 31) /\ s.ammount = 1 =>
                      /\ CandidateAt(s, 1) = Date(2023, 2, 28)
                      /\ CandidateAt(s, 2) = Date(2023, 3, 31)
               /\ s.start = Date(2024, 1, 30) /\ s.ammount = 1 =>
                      CandidateAt(s, 1) = Date(2024, 2, 29)

\* C13 witness: a next() call on the cadence anchored on January 31 2023 with
\* step 1 went over February 28 and holds March 31 as its candidate.
C13_Witness ==
    /\ aux.kind = monthlyKind
    /\ heap[schedule].start = Date(2023, 1, 31)
    /\ heap[schedule].ammount = 1
    /\ npc = "return"
    /\ heap[schedule].n = 2
    /\ cand = Date(2023, 3, 31)

\* Exactly three occurrences of the cadence fall before its end.
ThreeBeforeEnd ==
    LET s == heap[schedule] IN
    /\ s.end # ZeroTime
    /\ CandidateAt(s, FirstIdx + 2) < s.end
    /\ ~(CandidateAt(s, FirstIdx + 3) < s.end)

\* C14: with end set, next() reports hasMore exactly when the candidate it
\* settled on is strictly before end; so when only three occurrences fall
\* before end and next() is called once per step, at each occurrence in turn,
\* the first three calls report hasMore and the fourth does not.
C14_Bound ==
    Returned /\ heap[schedule].end # ZeroTime =>
        /\ ret.hasMore <=> ret.cand < heap[schedule].end
        /\ hist.onstep /\ ThreeBeforeEnd =>
               /\ hist.calls <= 3 => ret.hasMore
               /\ hist.calls = 4 => ~ret.hasMore

\* C14 witness: the fourth of four calls made one per step has returned on a
\* cadence with exactly three occurrences before its end.
C14_Witness ==
    /\ Returned
    /\ hist.onstep
    /\ ThreeBeforeEnd
    /\ hist.calls = 4
    /\ ret.idx = FirstIdx + 3

\* C15: every next() call on an already primed cadence returns wait >= 0 and
\* settles on the smallest index, not below the index it started from, whose
\* candidate is not before now, also when the clock advances between the two
\* clock reads inside next().
C15_PrimedWait ==
    Returned /\ ret.primed => ret.wait >= 0 /\ ret.minimal

\* The last call found the cadence unprimed and its candidate before now.
UnprimedPast == Returned /\ ~ret.primed /\ ret.past

\* C16: a next() call on an unprimed cadence whose candidate is already in the
\* past leaves occurrenceIndex unchanged, returns that candidate with a
\* non-positive wait, and sets primed.
C16_UnprimedStops ==
    UnprimedPast =>
        /\ ret.idx = ret.n0
        /\ heap[schedule].n = ret.n0
        /\ ret.cand = CandidateAt(heap[schedule], ret.n0)
        /\ ret.wait <= 0
        /\ heap[schedule].started

\* C16 witness: an unprimed monthly cadence was called more than one step
\* after its anchor and returned the anchor.
C16_Witness ==
    /\ UnprimedPast
    /\ aux.kind = monthlyKind
    /\ ret.cand = heap[schedule].start
    /\ CandidateAt(heap[schedule], 1) < ret.cand - ret.wait

\* C17: occurrenceIndex never decreases over any sequence of next() calls,
\* also when the clock goes backwards between calls, and only an iteration of
\* the catch-up loop of next() changes it.
C17_Monotone ==
    [][/\ heap'[schedule].n >= heap[schedule].n
       /\ heap'[schedule].n # heap[schedule].n =>
              /\ npc = "loop" /\ npc' = "loop"
              /\ heap[schedule].started
              /\ cand < now
              /\ heap'[schedule].n = heap[schedule].n + 1]_vars

\* C17 witness: after the clock was set back, a call made more than one step
\* before the occurrence already reached has returned that occurrence again.
C17_Witness ==
    /\ Returned
    /\ aux.kind = periodicKind
    /\ hist.back
    /\ ret.idx >= 2
    /\ ret.idx = hist.prevIdx
    /\ ret.wait > heap[schedule].ammount

\* The run limit is set and that many runs were started and have completed.
LimitReached == times # Unlimited /\ n > 0 /\ n = times /\ ~Executing

\* C18: once runsCompleted == maxRuns the Dispatcher is Stopped: from then on
\* no listener newly waits in a select (no further wait is armed) and no
\* runner newly enters the task (no further execution begins).
C18_StopsAtLimit ==
    [][LimitReached =>
          \A i \in Slots :
              /\ listener'[i] = "select" => listener[i] = "select"
              /\ runner'[i] = "task" => runner[i] = "task"]_vars

\* A step of an execution caused by triggerNow(): the request itself, the
\* listener taking it, or a step of the runner that listener started.
TriggeredStep ==
    \/ \E c \in Callers : TriggerNow(c)
    \/ \E i \in Slots : ListenSkip(i)
    \/ \E i \in Slots : cause[i] \in {"skip", "skipExecuting"} /\ Run(i)

\* The step leaves the scheduler in use, its occurrenceIndex and its primed
\* flag as they were.
CadenceKept ==
    /\ schedule' = schedule
    /\ heap'[schedule].n = heap[schedule].n
    /\ heap'[schedule].started = heap[schedule].started

\* C19: an execution caused by triggerNow() leaves the Cadence's
\* occurrenceIndex and primed flag unchanged: no step of it, from the request
\* to the end of the run, changes the scheduler in use or these fields (a
\* step that changes them is never a step of a triggered execution).
C19_TriggerKeepsCadence ==
    [][Len(heap) > 0 /\ ~CadenceKept => ~TriggeredStep]_vars

\* C19 witness: an execution requested by triggerNow() has run the task and
\* finished, no timer having fired.
C19_Witness ==
    /\ \E i \in Slots : cause[i] = "skip" /\ runner[i] = "done"
    /\ \A i \in Slots : cause[i] # "timer"
    /\ n > 0

\* C20: for every cadence the constructors accept, negative amounts and
\* wrapping amount*unit products included, the catch-up loop of next()
\* terminates for every value of now: a call that is in the loop leaves it.
C20_LoopEnds == (npc = "loop") ~> (npc # "loop")

TypeOK ==
    /\ n \in Nat
    /\ schedule \in 0..MaxDone
    /\ Len(heap) <= MaxDone
    /\ Len(quit) <= ChanCap
    /\ Len(skip) <= ChanCap
    /\ mutex \in 0..MaxDone
====
